---- MODULE Spec2Model ----
(***************************************************************************)
(* A model of the packet logger of q3/event_logger.py (class EventLogger): *)
(* the receive loop of run(), packet handling, the flush decision, the     *)
(* flush algorithm, finalize, the line writer and the recovery of the      *)
(* cursor and the Seen Set from the log file.                              *)
(*                                                                         *)
(* The logger object is the record `self`; the log file is the sequence of *)
(* its lines, a line being the sequence of its comma-separated fields.     *)
(* The packet source is the environment: it may deliver any packet.        *)
(*                                                                         *)
(* Specification SpecFetch models one call of RobustHTTPClient.fetch of    *)
(* q2/http_client.py: the retry loop over the outcomes of its attempts.    *)
(*                                                                         *)
(* Specification SpecMerge models two MergeWorker objects of               *)
(* q1/merge_worker.py, each the other's partner, whose step() calls        *)
(* interleave in any order; SpecMergeFair adds that each keeps being       *)
(* stepped.                                                                *)
(***************************************************************************)
EXTENDS Integers, Sequences, FiniteSets, TLC

\* ------------------------------------------------------------------ bounds
\* Sequence numbers the source delivers are 0..MaxSeq.
MaxSeq == 3
\* Packets the source delivers in total, over all runs.
MaxPackets == 4
\* Times a new EventLogger is constructed over the log a run left behind.
MaxRestarts == 1
\* buffer_size is drawn from 1..MaxBufferSize at construction.
MaxBufferSize == 2
\* Lines of a log file handed to recovery (specification SpecRecovery).
MaxFileLines == 3
\* Calls of _load_existing_log in SpecRecovery.
MaxLoads == 2
\* Packets of a stream the source plays in SpecStream (the scenario streams
\* are longer).
MaxStreamLen == 3

VARIABLES
    self,        \* the EventLogger object: its fields, stats included
    log_file,    \* the log file: a sequence of lines
    pc,          \* where run() stands: "receive", "should_flush", "flush",
                 \* "done" (run returned), "crashed" (an exception left run),
                 \* "recovery" (SpecRecovery only)
    calls,       \* history: the arguments of source.request_retransmit, in
                 \* call order, for the current EventLogger object
    writes,      \* history: one record per call of _write_packet, in order
    delivered,   \* history: packets handed out by source.receive so far
    restarts,    \* history: EventLogger objects constructed after the first
    loads,       \* history: calls of _load_existing_log (SpecRecovery)
    skips,       \* history: one record per gap skip of _flush_buffer
    stream,      \* the packets the source will deliver, in order, when the
                 \* source plays a fixed stream (SpecStream); <<>> otherwise
    fetch,       \* q2/http_client.py: one call of RobustHTTPClient.fetch
                 \* (SpecFetch): the loop variable try_num, the handler
                 \* callbacks made, the outcome of each attempt, and the
                 \* value returned ("running" until the call returns)
    merge        \* q1/merge_worker.py: two MergeWorkers (SpecMerge): the data
                 \* and the persisted state dict of each, the inbox file of
                 \* each (the outbox of the other), the shared output file,
                 \* and what step() last returned to each

vars == <<self, log_file, pc, calls, writes, delivered, restarts, loads,
          skips, stream, fetch, merge>>

\* The variables of the packet logger.
loggerVars == <<self, log_file, pc, calls, writes, delivered, restarts,
                loads, skips, stream>>

\* No MergeWorker constructed, no file of theirs written.
NoMerge ==
    [data |-> <<>>, state |-> <<>>, inbox |-> <<>>, output |-> <<>>,
     returned |-> <<>>]

\* A call of fetch entering its loop: no attempt made yet.
NoFetch ==
    [try_num |-> 0, handler |-> <<>>, attempts |-> <<>>,
     returned |-> "running"]

\* ------------------------------------------------------------- data model
\* LoggerStats(): every counter 0.
LoggerStats ==
    [packets_received |-> 0, packets_written |-> 0, duplicates_discarded |-> 0,
     corrupted_packets |-> 0, retransmit_requests |-> 0,
     retransmits_received |-> 0, inversions |-> 0, gaps |-> 0,
     buffer_flushes |-> 0, final_buffer_size |-> 0]

\* A packet of the source. `valid` is what source.verify_checksum answers for
\* it. The timestamp and the payload are carried to the log line and take
\* part in no decision; they are modelled already rendered.
Packet(seq, ok) ==
    [sequence |-> seq, timestamp |-> "0.000000", payload |-> "00", valid |-> ok]

Packets == { Packet(s, ok) : s \in 0..MaxSeq, ok \in BOOLEAN }

Max(a, b) == IF a >= b THEN a ELSE b

\* The fields __init__ sets before it calls _load_existing_log.
InitFields(buffer_size) ==
    [buffer_size |-> buffer_size,
     buffer |-> <<>>,
     seen_sequences |-> {},
     last_written_seq |-> -1,
     pending_retransmits |-> {},
     expected_sequence |-> 0,
     retransmitted_seqs |-> {},
     gap_wait_cycles |-> 0,
     gap_wait_limit |-> Max(6, buffer_size \div 2),
     gap_skip_limit |-> Max(1, buffer_size \div 10),
     stats |-> LoggerStats]

\* ---------------------------------------------------------- log line format
\* f"{seq_id},{time_log:.6f},{pl_hex},{status}": the fields of the line.
FormatLine(p, status) ==
    <<ToString(p.sequence), p.timestamp, p.payload, status>>

\* The integers int() is asked about in this model.
ParseRange == 0..(MaxSeq + 2)

\* int(field) succeeds: the field is the decimal text of an integer.
IsInt(field) == \E n \in ParseRange : ToString(n) = field

\* int(field).
IntOf(field) == CHOOSE n \in ParseRange : ToString(n) = field

\* line.split(",", 3): at most four parts, the fourth keeping the commas
\* (here: the fields) that follow the third comma.
RECURSIVE JoinRest(_)
JoinRest(fields) ==
    IF Len(fields) = 1 THEN fields[1]
    ELSE fields[1] \o "," \o JoinRest(Tail(fields))

Split3(line) ==
    IF Len(line) <= 4 THEN line
    ELSE SubSeq(line, 1, 3) \o <<JoinRest(SubSeq(line, 4, Len(line)))>>

\* A line that is whitespace only: str.strip() of the content drops it at
\* either end of the file, and split gives one field.
IsBlank(line) == line = <<"">>

\* content = read_text().strip(); `not content`.
ContentEmpty(file) == \A i \in 1..Len(file) : IsBlank(file[i])

\* LoadLines with a slip: the cursor is rebuilt but the sequences read are
\* not put back into seen_sequences.
RECURSIVE LoadLinesNoSeen(_, _, _)
LoadLinesNoSeen(file, i, acc) ==
    IF i > Len(file) THEN acc
    ELSE LET info == Split3(file[i])
         IN  IF Len(info) # 4 THEN LoadLinesNoSeen(file, i + 1, acc)
             ELSE IF ~IsInt(info[1]) THEN LoadLinesNoSeen(file, i + 1, acc)
             ELSE LoadLinesNoSeen(file, i + 1,
                                  [seen |-> acc.seen, last |-> IntOf(info[1])])

\* LoadLines with a slip: last_seq_id keeps the largest sequence read, not
\* the last one.
RECURSIVE LoadLinesMax(_, _, _)
LoadLinesMax(file, i, acc) ==
    IF i > Len(file) THEN acc
    ELSE LET info == Split3(file[i])
         IN  IF Len(info) # 4 THEN LoadLinesMax(file, i + 1, acc)
             ELSE IF ~IsInt(info[1]) THEN LoadLinesMax(file, i + 1, acc)
             ELSE LoadLinesMax(file, i + 1,
                               [seen |-> acc.seen \cup {IntOf(info[1])},
                                last |-> Max(acc.last, IntOf(info[1]))])

\* The loop of _load_existing_log over the lines from index i on; acc holds
\* seen_sequences and last_seq_id.
RECURSIVE LoadLines(_, _, _)
LoadLines(file, i, acc) ==
    IF i > Len(file) THEN acc
    ELSE LET info == Split3(file[i])
         IN  IF Len(info) # 4 THEN LoadLines(file, i + 1, acc)
             ELSE IF ~IsInt(info[1]) THEN LoadLines(file, i + 1, acc)
             ELSE LoadLines(file, i + 1,
                            [seen |-> acc.seen \cup {IntOf(info[1])},
                             last |-> IntOf(info[1])])

\* LoadExistingLog with a slip: the cursor is advanced by (+=) instead of
\* set to last_seq_id + 1.
LoadExistingLogAdding(o, file) ==
    IF ContentEmpty(file)
    THEN [o EXCEPT !.expected_sequence = 0, !.last_written_seq = -1]
    ELSE LET r == LoadLines(file, 1, [seen |-> o.seen_sequences, last |-> -1])
         IN  [o EXCEPT !.seen_sequences = r.seen,
                       !.last_written_seq = r.last,
                       !.expected_sequence = @ + r.last + 1]

\* _load_existing_log on the object o and the file.
LoadExistingLog(o, file) ==
    IF ContentEmpty(file)
    THEN [o EXCEPT !.expected_sequence = 0, !.last_written_seq = -1]
    ELSE LET r == LoadLines(file, 1, [seen |-> o.seen_sequences, last |-> -1])
         IN  [o EXCEPT !.seen_sequences = r.seen,
                       !.last_written_seq = r.last,
                       !.expected_sequence = r.last + 1]

\* EventLogger(source, log_file, buffer_size).
NewLogger(buffer_size, file) == LoadExistingLog(InitFields(buffer_size), file)

\* ------------------------------------------------------------ the operations
\* The operations below act on a record w of everything a call can change:
\* the object (w.self), the log file (w.log) and the histories the calls
\* leave behind (w.calls, w.writes, w.skips).
World ==
    [self |-> self, log |-> log_file, calls |-> calls, writes |-> writes,
     skips |-> skips]

\* WritePacket with a slip: the proposed status is written as it comes, an
\* out-of-order OK not turned into LATE.
WritePacketNoUpgrade(w, packet, status, path) ==
    LET seq_id == packet.sequence
        out_of_order == /\ w.self.last_written_seq # -1
                        /\ seq_id # w.self.last_written_seq + 1
        inv == IF status = "LATE" THEN 1
               ELSE IF status = "RETRANSMIT" /\ out_of_order THEN 1
               ELSE 0
    IN  [w EXCEPT
           !.self.stats.inversions = @ + inv,
           !.log = Append(@, FormatLine(packet, status)),
           !.self.stats.packets_written = @ + 1,
           !.self.last_written_seq = seq_id,
           !.writes = Append(@, [seq |-> seq_id, proposed |-> status,
                                 status |-> status, path |-> path,
                                 last |-> w.self.last_written_seq,
                                 expected |-> w.self.expected_sequence,
                                 retransmitted |->
                                     seq_id \in w.self.retransmitted_seqs,
                                 run |-> restarts])]

\* WritePacket with a slip: the line is written, packets_written not counted.
WritePacketUncounted(w, packet, status, path) ==
    LET seq_id == packet.sequence
        out_of_order == /\ w.self.last_written_seq # -1
                        /\ seq_id # w.self.last_written_seq + 1
        status2 == IF status = "OK" /\ out_of_order THEN "LATE" ELSE status
        inv == IF status2 = "LATE" THEN 1
               ELSE IF status2 = "RETRANSMIT" /\ out_of_order THEN 1
               ELSE 0
    IN  [w EXCEPT
           !.self.stats.inversions = @ + inv,
           !.log = Append(@, FormatLine(packet, status2)),
           !.self.last_written_seq = seq_id,
           !.writes = Append(@, [seq |-> seq_id, proposed |-> status,
                                 status |-> status2, path |-> path,
                                 last |-> w.self.last_written_seq,
                                 expected |-> w.self.expected_sequence,
                                 retransmitted |->
                                     seq_id \in w.self.retransmitted_seqs,
                                 run |-> restarts])]

\* _write_packet(packet, status); `path` names the caller for the history.
WritePacket(w, packet, status, path) ==
    LET seq_id == packet.sequence
        out_of_order == /\ w.self.last_written_seq # -1
                        /\ seq_id # w.self.last_written_seq + 1
        status2 == IF status = "OK" /\ out_of_order THEN "LATE" ELSE status
        inv == IF status2 = "LATE" THEN 1
               ELSE IF status2 = "RETRANSMIT" /\ out_of_order THEN 1
               ELSE 0
    IN  [w EXCEPT
           !.self.stats.inversions = @ + inv,
           !.log = Append(@, FormatLine(packet, status2)),
           !.self.stats.packets_written = @ + 1,
           !.self.last_written_seq = seq_id,
           !.writes = Append(@, [seq |-> seq_id, proposed |-> status,
                                 status |-> status2, path |-> path,
                                 last |-> w.self.last_written_seq,
                                 expected |-> w.self.expected_sequence,
                                 retransmitted |->
                                     seq_id \in w.self.retransmitted_seqs,
                                 run |-> restarts])]

\* ProposedStatus with a slip: the caller's tag is proposed as it is, the
\* Retransmitted Set not consulted.
ProposedStatusTagOnly(o, packet, tag) == tag

\* The status a caller proposes: "RETRANSMIT" for a sequence in
\* retransmitted_seqs, otherwise the caller's own tag.
ProposedStatus(o, packet, tag) ==
    IF packet.sequence \in o.retransmitted_seqs THEN "RETRANSMIT" ELSE tag

\* list.sort(key=sequence): a stable insertion sort.
RECURSIVE InsertBySeq(_, _)
InsertBySeq(sorted, p) ==
    IF sorted = <<>> THEN <<p>>
    ELSE IF sorted[Len(sorted)].sequence <= p.sequence THEN Append(sorted, p)
    ELSE Append(InsertBySeq(SubSeq(sorted, 1, Len(sorted) - 1), p),
                sorted[Len(sorted)])

RECURSIVE SortBySeq(_)
SortBySeq(buf) ==
    IF buf = <<>> THEN <<>>
    ELSE InsertBySeq(SortBySeq(SubSeq(buf, 1, Len(buf) - 1)), buf[Len(buf)])

\* list.pop(i), the list that is left (i is 1-based here).
Pop(buf, i) == SubSeq(buf, 1, i - 1) \o SubSeq(buf, i + 1, Len(buf))

\* any(p.sequence == seq for p in buf)
HasSeq(buf, seq) == \E i \in 1..Len(buf) : buf[i].sequence = seq

\* The index of the first packet in buf with the sequence seq.
FirstIndex(buf, seq) ==
    CHOOSE i \in 1..Len(buf) :
        /\ buf[i].sequence = seq
        /\ \A j \in 1..(i - 1) : buf[j].sequence # seq

\* HandlePacket with a slip: a corrupt packet's sequence joins the Seen Set.
HandlePacketCorruptSeen(w, packet) ==
    LET seq_id == packet.sequence
    IN  IF ~packet.valid
        THEN LET w1 == [w EXCEPT !.self.stats.corrupted_packets = @ + 1,
                                 !.self.seen_sequences = @ \cup {seq_id}]
             IN  IF seq_id \in w1.self.pending_retransmits THEN w1
                 ELSE [w1 EXCEPT
                         !.calls = Append(@, seq_id),
                         !.self.pending_retransmits = @ \cup {seq_id},
                         !.self.retransmitted_seqs = @ \cup {seq_id},
                         !.self.stats.retransmit_requests = @ + 1]
        ELSE IF seq_id \in w.self.seen_sequences
        THEN [w EXCEPT !.self.stats.duplicates_discarded = @ + 1]
        ELSE [w EXCEPT
                !.self.seen_sequences = @ \cup {seq_id},
                !.self.stats.retransmits_received =
                    IF seq_id \in w.self.retransmitted_seqs THEN @ + 1 ELSE @,
                !.self.buffer = Append(@, packet)]

\* HandlePacket with a slip: an intact packet is buffered without looking at
\* seen_sequences.
HandlePacketNoDedup(w, packet) ==
    LET seq_id == packet.sequence
    IN  IF ~packet.valid
        THEN LET w1 == [w EXCEPT !.self.stats.corrupted_packets = @ + 1]
             IN  IF seq_id \in w1.self.pending_retransmits THEN w1
                 ELSE [w1 EXCEPT
                         !.calls = Append(@, seq_id),
                         !.self.pending_retransmits = @ \cup {seq_id},
                         !.self.retransmitted_seqs = @ \cup {seq_id},
                         !.self.stats.retransmit_requests = @ + 1]
        ELSE [w EXCEPT
                !.self.seen_sequences = @ \cup {seq_id},
                !.self.stats.retransmits_received =
                    IF seq_id \in w.self.retransmitted_seqs THEN @ + 1 ELSE @,
                !.self.buffer = Append(@, packet)]

\* _handle_packet(packet)
HandlePacket(w, packet) ==
    LET seq_id == packet.sequence
    IN  IF ~packet.valid
        THEN LET w1 == [w EXCEPT !.self.stats.corrupted_packets = @ + 1]
             IN  IF seq_id \in w1.self.pending_retransmits THEN w1
                 ELSE [w1 EXCEPT
                         !.calls = Append(@, seq_id),
                         !.self.pending_retransmits = @ \cup {seq_id},
                         !.self.retransmitted_seqs = @ \cup {seq_id},
                         !.self.stats.retransmit_requests = @ + 1]
        ELSE IF seq_id \in w.self.seen_sequences
        THEN [w EXCEPT !.self.stats.duplicates_discarded = @ + 1]
        ELSE [w EXCEPT
                !.self.seen_sequences = @ \cup {seq_id},
                !.self.stats.retransmits_received =
                    IF seq_id \in w.self.retransmitted_seqs THEN @ + 1 ELSE @,
                !.self.buffer = Append(@, packet)]

\* ContiguousDrain with a slip: it stops after the first packet it writes.
ContiguousDrainOnce(w, path) ==
    IF ~HasSeq(w.self.buffer, w.self.expected_sequence) THEN w
    ELSE LET i == FirstIndex(w.self.buffer, w.self.expected_sequence)
             packet == w.self.buffer[i]
             w1 == [w EXCEPT !.self.buffer = Pop(@, i)]
             w2 == WritePacket(w1, packet,
                               ProposedStatus(w1.self, packet, "OK"), path)
         IN  [w2 EXCEPT !.self.expected_sequence = @ + 1]

\* The contiguous drain of _flush_buffer: the `while True` loops that pop the
\* packet with sequence expected_sequence, write it and advance the cursor.
RECURSIVE ContiguousDrain(_, _)
ContiguousDrain(w, path) ==
    IF ~HasSeq(w.self.buffer, w.self.expected_sequence) THEN w
    ELSE LET i == FirstIndex(w.self.buffer, w.self.expected_sequence)
             packet == w.self.buffer[i]
             w1 == [w EXCEPT !.self.buffer = Pop(@, i)]
             w2 == WritePacket(w1, packet,
                               ProposedStatus(w1.self, packet, "OK"), path)
         IN  ContiguousDrain([w2 EXCEPT !.self.expected_sequence = @ + 1], path)

\* MissingHeadRetransmit with a slip: the request is made without looking
\* at pending_retransmits.
MissingHeadRetransmitAlways(w) ==
    IF HasSeq(w.self.buffer, w.self.expected_sequence) THEN w
    ELSE LET exp_seq_id == w.self.expected_sequence
         IN  [w EXCEPT
                !.calls = Append(@, exp_seq_id),
                !.self.pending_retransmits = @ \cup {exp_seq_id},
                !.self.retransmitted_seqs = @ \cup {exp_seq_id},
                !.self.stats.retransmit_requests = @ + 1]

\* The missing-head retransmit request of _flush_buffer.
MissingHeadRetransmit(w) ==
    IF HasSeq(w.self.buffer, w.self.expected_sequence) THEN w
    ELSE LET exp_seq_id == w.self.expected_sequence
         IN  IF exp_seq_id \in w.self.pending_retransmits THEN w
             ELSE [w EXCEPT
                     !.calls = Append(@, exp_seq_id),
                     !.self.pending_retransmits = @ \cup {exp_seq_id},
                     !.self.retransmitted_seqs = @ \cup {exp_seq_id},
                     !.self.stats.retransmit_requests = @ + 1]

\* What the history keeps of a gap skip made in the state w, skip_count
\* skips into the loop: the cursor skipped, the buffer as it was, the flush it
\* belongs to and how many lines had been written.
SkipRecord(w, skip_count) ==
    [skipped |-> w.self.expected_sequence,
     buffer |-> w.self.buffer,
     skip_count |-> skip_count,
     flush |-> w.self.stats.buffer_flushes,
     written |-> Len(w.writes),
     run |-> restarts]

\* GapSkip with a slip: a skip moves the cursor to the smallest buffered
\* sequence instead of one further.
RECURSIVE GapSkipJump(_, _)
GapSkipJump(w, skip_count) ==
    IF ~(skip_count < w.self.gap_skip_limit /\ w.self.buffer # <<>>) THEN w
    ELSE LET w1 == [w EXCEPT !.self.buffer = SortBySeq(@)]
             smallest_seq_id == w1.self.buffer[1].sequence
         IN  IF smallest_seq_id > w1.self.expected_sequence
             THEN GapSkipJump(
                    ContiguousDrain(
                      [w1 EXCEPT !.self.stats.gaps = @ + 1,
                                 !.self.expected_sequence = smallest_seq_id,
                                 !.skips = Append(@, SkipRecord(w1, skip_count))],
                      "gap_drain"),
                    skip_count + 1)
             ELSE w1

\* GapSkip with a slip: the skipping goes on, whatever gap_skip_limit, until
\* the cursor reaches the smallest buffered sequence.
RECURSIVE GapSkipUnbounded(_, _)
GapSkipUnbounded(w, skip_count) ==
    IF w.self.buffer = <<>> THEN w
    ELSE LET w1 == [w EXCEPT !.self.buffer = SortBySeq(@)]
             smallest_seq_id == w1.self.buffer[1].sequence
         IN  IF smallest_seq_id > w1.self.expected_sequence
             THEN GapSkipUnbounded(
                    ContiguousDrain(
                      [w1 EXCEPT !.self.stats.gaps = @ + 1,
                                 !.self.expected_sequence = @ + 1,
                                 !.skips = Append(@, SkipRecord(w1, skip_count))],
                      "gap_drain"),
                    skip_count + 1)
             ELSE w1

\* The gap-skip loop of _flush_buffer, skip_count skips already made.
RECURSIVE GapSkip(_, _)
GapSkip(w, skip_count) ==
    IF ~(skip_count < w.self.gap_skip_limit /\ w.self.buffer # <<>>) THEN w
    ELSE LET w1 == [w EXCEPT !.self.buffer = SortBySeq(@)]
             smallest_seq_id == w1.self.buffer[1].sequence
         IN  IF smallest_seq_id > w1.self.expected_sequence
             THEN GapSkip(
                    ContiguousDrain(
                      [w1 EXCEPT !.self.stats.gaps = @ + 1,
                                 !.self.expected_sequence = @ + 1,
                                 !.skips = Append(@, SkipRecord(w1, skip_count))],
                      "gap_drain"),
                    skip_count + 1)
             ELSE w1

\* BoundEnforcement with a slip: the loop tolerates one packet too many.
RECURSIVE BoundEnforcementLoose(_)
BoundEnforcementLoose(w) ==
    IF ~(Len(w.self.buffer) > w.self.buffer_size + 1) THEN w
    ELSE LET sorted == SortBySeq(w.self.buffer)
             packet == sorted[1]
             w1 == [w EXCEPT !.self.buffer = Pop(sorted, 1)]
         IN  BoundEnforcementLoose(
               WritePacket(w1, packet,
                           ProposedStatus(w1.self, packet, "LATE"), "evict"))

\* BoundEnforcement with a slip: the packet evicted is the last of the sorted
\* buffer.
RECURSIVE BoundEnforcementLargest(_)
BoundEnforcementLargest(w) ==
    IF ~(Len(w.self.buffer) > w.self.buffer_size) THEN w
    ELSE LET sorted == SortBySeq(w.self.buffer)
             packet == sorted[Len(sorted)]
             w1 == [w EXCEPT !.self.buffer = Pop(sorted, Len(sorted))]
         IN  BoundEnforcementLargest(
               WritePacket(w1, packet,
                           ProposedStatus(w1.self, packet, "LATE"), "evict"))

\* The bound enforcement of _flush_buffer: evict the smallest sequence while
\* the buffer holds more than buffer_size packets.
RECURSIVE BoundEnforcement(_)
BoundEnforcement(w) ==
    IF ~(Len(w.self.buffer) > w.self.buffer_size) THEN w
    ELSE LET sorted == SortBySeq(w.self.buffer)
             packet == sorted[1]
             w1 == [w EXCEPT !.self.buffer = Pop(sorted, 1)]
         IN  BoundEnforcement(
               WritePacket(w1, packet,
                           ProposedStatus(w1.self, packet, "LATE"), "evict"))

\* _flush_buffer()
FlushBuffer(w) ==
    IF w.self.buffer = <<>> THEN w
    ELSE LET w1 == [w EXCEPT !.self.stats.buffer_flushes = @ + 1,
                             !.self.buffer = SortBySeq(@)]
             w2 == ContiguousDrain(w1, "drain")
             w3 == [w2 EXCEPT !.self.buffer = SortBySeq(@)]
             w4 == MissingHeadRetransmit(w3)
             w5 == GapSkip(w4, 0)
         IN  BoundEnforcement(w5)

\* FinalDrain with a slip: the loop runs while the buffer holds more than
\* buffer_size packets (the condition of the bound enforcement).
RECURSIVE FinalDrainBounded(_)
FinalDrainBounded(w) ==
    IF ~(Len(w.self.buffer) > w.self.buffer_size) THEN w
    ELSE LET packet == w.self.buffer[1]
             w1 == [w EXCEPT !.self.buffer = Pop(@, 1)]
         IN  FinalDrainBounded(
               WritePacket(w1, packet,
                           ProposedStatus(w1.self, packet, "LATE"), "finalize"))

\* The drain loop of _finalize: pop(0) and write until the buffer is empty.
RECURSIVE FinalDrain(_)
FinalDrain(w) ==
    IF w.self.buffer = <<>> THEN w
    ELSE LET packet == w.self.buffer[1]
             w1 == [w EXCEPT !.self.buffer = Pop(@, 1)]
         IN  FinalDrain(
               WritePacket(w1, packet,
                           ProposedStatus(w1.self, packet, "LATE"), "finalize"))

\* _finalize()
Finalize(w) ==
    LET w1 == FlushBuffer(w)
        w2 == [w1 EXCEPT !.self.buffer = SortBySeq(@)]
        w3 == FinalDrain(w2)
    IN  [w3 EXCEPT !.self.stats.final_buffer_size = 0]

\* ----------------------------------------------------------------- actions
\* What a step leaves of the world in the variables.
Commit(w) ==
    /\ self' = w.self
    /\ log_file' = w.log
    /\ calls' = w.calls
    /\ writes' = w.writes
    /\ skips' = w.skips

\* run(): source.receive() returns a packet; the packet is counted and
\* handled.
Receive ==
    /\ pc = "receive"
    /\ delivered < MaxPackets
    /\ \E packet \in Packets :
          Commit(HandlePacket(
                   [World EXCEPT !.self.stats.packets_received = @ + 1],
                   packet))
    /\ pc' = "should_flush"
    /\ delivered' = delivered + 1
    /\ UNCHANGED <<restarts, loads, stream, fetch, merge>>

\* _should_flush() reads self.expected_seq, an attribute the object does not
\* have: once the generator given to any() is asked for its first element
\* (the buffer is not empty) the read raises AttributeError, which run() does
\* not catch.
ShouldFlushRaises(o) ==
    /\ ~(Len(o.buffer) >= o.buffer_size)
    /\ o.buffer # <<>>

\* _should_flush() when it does not raise: the object after the call and the
\* answer. Past the size test the buffer is empty here (ShouldFlushRaises
\* covers the rest), and any() over an empty buffer is False without its
\* condition being evaluated.
ShouldFlush(o) ==
    IF Len(o.buffer) >= o.buffer_size THEN [self |-> o, flush |-> TRUE]
    ELSE LET has_expected == FALSE
             o1 == [o EXCEPT !.gap_wait_cycles =
                                IF has_expected THEN 0 ELSE @ + 1]
         IN  [self |-> o1,
              flush |-> ~(o1.gap_wait_cycles < o1.gap_wait_limit)]

\* run(): `if self._should_flush():`
FlushDecision ==
    /\ pc = "should_flush"
    /\ IF ShouldFlushRaises(self)
       THEN /\ pc' = "crashed"
            /\ UNCHANGED self
       ELSE /\ self' = ShouldFlush(self).self
            /\ pc' = IF ShouldFlush(self).flush THEN "flush" ELSE "receive"
    /\ UNCHANGED <<log_file, calls, writes, delivered, restarts, loads,
                   skips, stream, fetch, merge>>

\* run(): `self._flush_buffer()`
Flush ==
    /\ pc = "flush"
    /\ Commit(FlushBuffer(World))
    /\ pc' = "receive"
    /\ UNCHANGED <<delivered, restarts, loads, stream, fetch, merge>>

\* run(): source.receive() returns None, or raises SystemExit; either way
\* _finalize() runs and run() returns the stats.
EndOfStream ==
    /\ pc = "receive"
    /\ Commit(Finalize(World))
    /\ pc' = "done"
    /\ UNCHANGED <<delivered, restarts, loads, stream, fetch, merge>>

\* A new process constructs an EventLogger over the log file the last run
\* left, with a buffer_size of its own, and calls run().
Restart ==
    /\ pc \in {"done", "crashed"}
    /\ restarts < MaxRestarts
    /\ \E buffer_size \in 1..MaxBufferSize :
          self' = NewLogger(buffer_size, log_file)
    /\ calls' = <<>>
    /\ pc' = "receive"
    /\ restarts' = restarts + 1
    /\ UNCHANGED <<log_file, writes, delivered, loads, skips, stream, fetch, merge>>

\* The first EventLogger, constructed over an absent log file (which
\* __init__ creates empty).
Init ==
    /\ \E buffer_size \in 1..MaxBufferSize : self = NewLogger(buffer_size, <<>>)
    /\ log_file = <<>>
    /\ pc = "receive"
    /\ calls = <<>>
    /\ writes = <<>>
    /\ delivered = 0
    /\ restarts = 0
    /\ loads = 1
    /\ skips = <<>>
    /\ stream = <<>>
    /\ fetch = NoFetch
    /\ merge = NoMerge

Next == Receive \/ FlushDecision \/ Flush \/ EndOfStream \/ Restart

Spec == Init /\ [][Next]_vars

\* ------------------------------------------------- recovery, on any log file
\* The lines a log file handed to recovery may hold: lines the logger wrote,
\* a line whose first field is no integer, a line cut short, a line with a
\* comma too many, a blank line.
Lines ==
    { <<ToString(n), "0.000000", "00", "OK">> : n \in 0..MaxSeq }
    \cup { <<"x", "0.000000", "00", "OK">> }
    \cup { <<"1", "0.000000", "00">> }
    \cup { <<"2", "0.000000", "00", "OK", "LATE">> }
    \cup { <<"">> }

Files == UNION { [1..n -> Lines] : n \in 0..MaxFileLines }

\* An object whose constructor has set its fields and is about to call
\* _load_existing_log, over any log file.
RecoveryInit ==
    /\ log_file \in Files
    /\ \E buffer_size \in 1..MaxBufferSize : self = InitFields(buffer_size)
    /\ pc = "recovery"
    /\ calls = <<>>
    /\ writes = <<>>
    /\ delivered = 0
    /\ restarts = 0
    /\ loads = 0
    /\ skips = <<>>
    /\ stream = <<>>
    /\ fetch = NoFetch
    /\ merge = NoMerge

\* _load_existing_log() is called on the object, the file unchanged.
Recover ==
    /\ pc = "recovery"
    /\ loads < MaxLoads
    /\ self' = LoadExistingLog(self, log_file)
    /\ loads' = loads + 1
    /\ UNCHANGED <<log_file, pc, calls, writes, delivered, restarts,
                   skips, stream, fetch, merge>>

RecoveryNext == Recover

SpecRecovery == RecoveryInit /\ [][RecoveryNext]_vars

\* ------------------------------------------- the source plays a fixed stream
\* Scenario A of the specification: sequences 0, 1, 2, 3 in order, intact.
ScenarioA == <<Packet(0, TRUE), Packet(1, TRUE), Packet(2, TRUE), Packet(3, TRUE)>>

\* Scenario C: sequence s fails the checksum twice, then arrives intact.
ScenarioC(s) == <<Packet(s, FALSE), Packet(s, FALSE), Packet(s, TRUE)>>

\* Scenario D: sequence 0, then sequence 2, then gap_wait_limit further
\* deliveries (of the scenario's buffer_size 4) none of which is sequence 1:
\* intact copies of sequence 0 or 2.
ScenarioD ==
    { <<Packet(0, TRUE), Packet(2, TRUE)>> \o rest :
        rest \in [1..InitFields(4).gap_wait_limit ->
                    {Packet(0, TRUE), Packet(2, TRUE)}] }

\* The streams the source may play: every stream of up to MaxStreamLen
\* packets, and the streams of the scenarios.
Streams ==
    UNION { [1..n -> Packets] : n \in 0..MaxStreamLen }
    \cup {ScenarioA} \cup ScenarioD

\* An EventLogger over an absent log file, with a buffer_size of 1, 2 or the
\* scenarios' 4, and a source that will deliver the packets of one stream
\* and then signal end-of-stream.
StreamInit ==
    /\ stream \in Streams
    /\ \E buffer_size \in {1, 2, 4} : self = NewLogger(buffer_size, <<>>)
    /\ log_file = <<>>
    /\ pc = "receive"
    /\ calls = <<>>
    /\ writes = <<>>
    /\ delivered = 0
    /\ restarts = 0
    /\ loads = 1
    /\ skips = <<>>
    /\ fetch = NoFetch
    /\ merge = NoMerge

\* run(): source.receive() returns the next packet of the stream; the packet
\* is counted and handled.
ReceiveFromStream ==
    /\ pc = "receive"
    /\ delivered < Len(stream)
    /\ Commit(HandlePacket(
                [World EXCEPT !.self.stats.packets_received = @ + 1],
                stream[delivered + 1]))
    /\ pc' = "should_flush"
    /\ delivered' = delivered + 1
    /\ UNCHANGED <<restarts, loads, stream, fetch, merge>>

\* run(): the stream is over, source.receive() returns None; _finalize()
\* runs and run() returns the stats.
StreamEnds ==
    /\ pc = "receive"
    /\ delivered = Len(stream)
    /\ Commit(Finalize(World))
    /\ pc' = "done"
    /\ UNCHANGED <<delivered, restarts, loads, stream, fetch, merge>>

StreamNext == ReceiveFromStream \/ FlushDecision \/ Flush \/ StreamEnds

SpecStream == StreamInit /\ [][StreamNext]_vars

\* ----------------------------------- q2/http_client.py: RobustHTTPClient.fetch
\* Retries after the first attempt.
MAX_RETRIES == 3

MONITORED_KEYWORDS == <<"foo", "bar", "baz">>

\* Status codes an attempt may end with: the ends of the ranges fetch tests,
\* and a code outside each of them.
Codes == {199, 200, 299, 300, 400, 499, 500, 599, 600}

\* Keywords the body of a response may contain.
Bodies == {{}, {"bar"}, {"foo", "baz"}}

\* What one attempt (one urlopen, read and getcode) may end in: a response
\* with a status, a latency above SLOW_THRESHOLD_MS or not, and a body; an
\* HTTPError, which urllib raises for a status that is not 2xx, its code
\* possibly None; a timeout; a URLError; any other exception. Latency and body
\* are read for a 2xx only, and are left at one value otherwise.
Outcomes ==
    [kind : {"response"}, status : 200..299 \cap Codes, slow : BOOLEAN,
     body : Bodies]
    \cup [kind : {"response"}, status : Codes \ (200..299), slow : {FALSE},
          body : {{}}]
    \cup [kind : {"HTTPError"}, has_code : {TRUE}, code : Codes \ (200..299)]
    \cup [kind : {"HTTPError"}, has_code : {FALSE}, code : {0}]
    \cup [kind : {"timeout", "URLError", "Exception"}]

\* self.handler.<name>(...), made in iteration try_num of the loop.
Callback(f, name) ==
    [f EXCEPT !.handler = Append(@, [name |-> name, try_num |-> f.try_num])]

\* `return True` / `return False`
Return(f, value) == [f EXCEPT !.returned = value]

\* on_body_match for each monitored keyword the body contains, in the order
\* of MONITORED_KEYWORDS, from keyword number k on.
RECURSIVE BodyMatches(_, _, _)
BodyMatches(f, body, k) ==
    IF k > Len(MONITORED_KEYWORDS) THEN f
    ELSE BodyMatches(IF MONITORED_KEYWORDS[k] \in body
                     THEN Callback(f, "on_body_match") ELSE f,
                     body, k + 1)

\* A variant of RetryOrGiveUp that gives up one iteration later.
RetryOrGiveUpLate(f) ==
    IF f.try_num = MAX_RETRIES + 1
    THEN Return(Callback(f, "on_max_retries"), "False")
    ELSE [Callback(f, "on_retry") EXCEPT !.try_num = @ + 1]

\* The tail every failure that is not a 4xx shares: in the last iteration
\* on_max_retries and `return False`; otherwise on_retry, the backoff sleep
\* and `continue`.
RetryOrGiveUp(f) ==
    IF f.try_num = MAX_RETRIES
    THEN Return(Callback(f, "on_max_retries"), "False")
    ELSE [Callback(f, "on_retry") EXCEPT !.try_num = @ + 1]

\* The status tests of the try block (from_response) and of the HTTPError
\* handler, which has no 2xx test.
OnStatus(f, status_code, from_response, o) ==
    IF from_response /\ 200 <= status_code /\ status_code < 300
    THEN LET f1 == Callback(f, "on_success")
             f2 == IF o.slow THEN Callback(f1, "on_slow_response") ELSE f1
         IN  Return(BodyMatches(f2, o.body, 1), "True")
    ELSE IF 400 <= status_code /\ status_code < 500
    THEN Return(Callback(f, "on_client_error"), "False")
    ELSE IF 500 <= status_code /\ status_code < 600
    THEN RetryOrGiveUp(Callback(f, "on_server_error"))
    ELSE RetryOrGiveUp(f)

\* One iteration of `for try_num in range(self.MAX_RETRIES + 1)` whose
\* attempt ends in outcome o; when the range is exhausted without a return,
\* the code after the loop calls on_max_retries and returns False.
FetchIteration(f, o) ==
    LET f0 == [f EXCEPT !.attempts = Append(@, o)]
        f1 == CASE o.kind = "response" -> OnStatus(f0, o.status, TRUE, o)
                [] o.kind = "HTTPError" ->
                      OnStatus(f0, IF o.has_code THEN o.code ELSE 0, FALSE, o)
                [] o.kind = "timeout" ->
                      RetryOrGiveUp(Callback(f0, "on_timeout"))
                [] o.kind \in {"URLError", "Exception"} ->
                      RetryOrGiveUp(Callback(f0, "on_connection_error"))
    IN  IF f1.returned = "running" /\ ~(f1.try_num < MAX_RETRIES + 1)
        THEN Return(Callback(f1, "on_max_retries"), "False")
        ELSE f1

\* fetch(url) has been called and is at the top of its loop; the packet
\* logger plays no part.
FetchInit ==
    /\ fetch = NoFetch
    /\ merge = NoMerge
    /\ self = InitFields(1)
    /\ log_file = <<>>
    /\ pc = "fetch"
    /\ calls = <<>>
    /\ writes = <<>>
    /\ delivered = 0
    /\ restarts = 0
    /\ loads = 0
    /\ skips = <<>>
    /\ stream = <<>>

\* One iteration of the loop of fetch, the attempt ending in any outcome.
FetchAttempt ==
    /\ pc = "fetch"
    /\ fetch.returned = "running"
    /\ \E o \in Outcomes : fetch' = FetchIteration(fetch, o)
    /\ UNCHANGED <<loggerVars, merge>>

FetchNext == FetchAttempt

SpecFetch == FetchInit /\ [][FetchNext]_vars

\* --------------------------------------------- q1/merge_worker.py: MergeWorker
\* Values of the workers' lists are 0..MaxValue.
MaxValue == 2
\* The two workers' lists hold at most MaxDataLen values together.
MaxDataLen == 3

WorkerIds == {"A", "B"}

\* The partner of a worker: its outbox is the partner's inbox.
Partner(id) == IF id = "A" THEN "B" ELSE "A"

\* A state entry that is None, an integer, or the string "END".
NoneV == [tag |-> "None", val |-> 0]
IntV(v) == [tag |-> "int", val |-> v]
EndV == [tag |-> "END", val |-> 0]

\* The lists sorted(data) can be: the non-decreasing sequences.
SortedLists ==
    { d \in UNION { [1..n -> 0..MaxValue] : n \in 0..MaxDataLen } :
        \A i \in 1..(Len(d) - 1) : d[i] <= d[i + 1] }

\* _initial_state()
InitialState(data) ==
    [phase |-> "INIT",
     my_min |-> IF data # <<>> THEN IntV(data[1]) ELSE NoneV,
     my_max |-> IF data # <<>> THEN IntV(data[Len(data)]) ELSE NoneV,
     my_count |-> Len(data),
     partner_min |-> NoneV,
     partner_max |-> NoneV,
     partner_count |-> NoneV,
     data_index |-> 0,
     output_count |-> 0,
     rang_sent |-> FALSE,
     last_sent |-> NoneV,
     file_pos |-> 0,
     finish |-> FALSE,
     b_current |-> NoneV,
     b_end |-> FALSE,
     take_wait |-> FALSE]

\* A worker in the middle of step(): its state dict, its data, the lines it
\* has appended to its outbox and the values it has appended to the output
\* file in this step. The WorkerStats counters are only ever incremented,
\* step() never reads them; they are no part of the worker here.
Stepping(st, data) ==
    [state |-> st, data |-> data, sent |-> <<>>, out |-> <<>>]

\* _send_msgs(msg_type, values); the types sent have at most 5 characters
\* and the value lists at most 3 integers, so it does not raise.
SendMsgs(m, msg_type, values) ==
    [m EXCEPT !.sent = Append(@, [msg_type |-> msg_type, values |-> values])]

\* _output_msg(v)
OutputMsg(m, v) ==
    [m EXCEPT !.out = Append(@, v)]

\* HandleMsg with a slip: an END message does not set b_end.
HandleMsgEndUnmarked(m, msg) ==
    LET msg_t == msg.msg_type
        msg_vals == msg.values
    IN  IF msg_t = "RANG"
        THEN IF Len(msg_vals) = 3
             THEN [m EXCEPT !.state.partner_min = IntV(msg_vals[1]),
                            !.state.partner_max = IntV(msg_vals[2]),
                            !.state.partner_count = IntV(msg_vals[3])]
             ELSE m
        ELSE IF msg_t = "HEAD"
        THEN IF Len(msg_vals) = 1
             THEN [m EXCEPT !.state.b_current = IntV(msg_vals[1]),
                            !.state.b_end = FALSE,
                            !.state.take_wait = FALSE]
             ELSE m
        ELSE IF msg_t = "END"
        THEN [m EXCEPT !.state.b_current = NoneV,
                       !.state.take_wait = FALSE]
        ELSE IF msg_t = "TAKE"
        THEN LET idx == m.state.data_index
             IN  IF idx < Len(m.data)
                 THEN LET m1 == [OutputMsg(m, m.data[idx + 1])
                                   EXCEPT !.state.data_index = @ + 1]
                      IN  IF m1.state.data_index < Len(m1.data)
                          THEN LET new_head ==
                                       m1.data[m1.state.data_index + 1]
                               IN  [SendMsgs(m1, "HEAD", <<new_head>>)
                                      EXCEPT !.state.last_sent = IntV(new_head),
                                             !.state.b_end = FALSE]
                          ELSE [SendMsgs(m1, "END", <<>>)
                                  EXCEPT !.state.last_sent = EndV]
                 ELSE [SendMsgs(m, "END", <<>>)
                         EXCEPT !.state.last_sent = EndV]
        ELSE m

\* The body of `for msg in inbox_msgs`, for one message. Python lists are
\* indexed from 0, the sequences here from 1.
HandleMsg(m, msg) ==
    LET msg_t == msg.msg_type
        msg_vals == msg.values
    IN  IF msg_t = "RANG"
        THEN IF Len(msg_vals) = 3
             THEN [m EXCEPT !.state.partner_min = IntV(msg_vals[1]),
                            !.state.partner_max = IntV(msg_vals[2]),
                            !.state.partner_count = IntV(msg_vals[3])]
             ELSE m
        ELSE IF msg_t = "HEAD"
        THEN IF Len(msg_vals) = 1
             THEN [m EXCEPT !.state.b_current = IntV(msg_vals[1]),
                            !.state.b_end = FALSE,
                            !.state.take_wait = FALSE]
             ELSE m
        ELSE IF msg_t = "END"
        THEN [m EXCEPT !.state.b_current = NoneV,
                       !.state.b_end = TRUE,
                       !.state.take_wait = FALSE]
        ELSE IF msg_t = "TAKE"
        THEN LET idx == m.state.data_index
             IN  IF idx < Len(m.data)
                 THEN LET m1 == [OutputMsg(m, m.data[idx + 1])
                                   EXCEPT !.state.data_index = @ + 1]
                      IN  IF m1.state.data_index < Len(m1.data)
                          THEN LET new_head ==
                                       m1.data[m1.state.data_index + 1]
                               IN  [SendMsgs(m1, "HEAD", <<new_head>>)
                                      EXCEPT !.state.last_sent = IntV(new_head),
                                             !.state.b_end = FALSE]
                          ELSE [SendMsgs(m1, "END", <<>>)
                                  EXCEPT !.state.last_sent = EndV]
                 ELSE [SendMsgs(m, "END", <<>>)
                         EXCEPT !.state.last_sent = EndV]
        ELSE m

\* `for msg in inbox_msgs`
RECURSIVE HandleMsgs(_, _)
HandleMsgs(m, msgs) ==
    IF msgs = <<>> THEN m
    ELSE HandleMsgs(HandleMsg(m, Head(msgs)), Tail(msgs))

\* _read_new_msgs(): the lines of the inbox past file_pos are read (the
\* lines the workers write are never blank) and file_pos moves to the end.
ReadNewMsgs(m, inbox) ==
    [m EXCEPT !.state.file_pos = Len(inbox)]

\* step() past the message loop: the phase code. The answer is the worker
\* and the value step() returns.
PhaseStep(m) ==
    LET phase == m.state.phase
        m0 == [state |-> m.state, data |-> m.data, sent |-> m.sent,
               out |-> m.out, ret |-> TRUE]
    IN  IF phase = "INIT"
        THEN IF ~m0.state.rang_sent
             THEN LET my_min == IF m0.state.my_min = NoneV THEN -1
                                ELSE m0.state.my_min.val
                      my_max == IF m0.state.my_max = NoneV THEN -1
                                ELSE m0.state.my_max.val
                  IN  [SendMsgs(m0, "RANG",
                                <<my_min, my_max, m0.state.my_count>>)
                         EXCEPT !.state.rang_sent = TRUE]
             ELSE IF m0.state.partner_count # NoneV
             THEN [m0 EXCEPT !.state.phase = "MERGE"]
             ELSE m0
        ELSE IF phase = "MERGE"
        THEN LET data_index == m0.state.data_index
                 done_stage == data_index >= Len(m0.data)
             IN  IF done_stage
                 THEN IF m0.state.last_sent # EndV
                      THEN [SendMsgs(m0, "END", <<>>)
                              EXCEPT !.state.last_sent = EndV]
                      ELSE IF m0.state.b_end
                      THEN [m0 EXCEPT !.state.phase = "DONE"]
                      ELSE m0
                 ELSE LET curr_head == m0.data[data_index + 1]
                          b_current == m0.state.b_current
                      IN  IF m0.state.last_sent # IntV(curr_head)
                          THEN [SendMsgs(m0, "HEAD", <<curr_head>>)
                                  EXCEPT !.state.last_sent = IntV(curr_head)]
                          ELSE IF m0.state.b_end
                          THEN [OutputMsg(m0, curr_head)
                                  EXCEPT !.state.data_index = @ + 1]
                          ELSE IF b_current # NoneV
                          THEN IF curr_head < b_current.val
                               THEN [OutputMsg(m0, curr_head)
                                       EXCEPT !.state.data_index = @ + 1]
                               ELSE IF ~m0.state.take_wait
                               THEN [SendMsgs(m0, "TAKE", <<>>)
                                       EXCEPT !.state.take_wait = TRUE]
                               ELSE m0
                          ELSE m0
        ELSE IF phase = "DONE"
        THEN IF m0.state.b_end /\ m0.state.data_index >= Len(m0.data)
             THEN [m0 EXCEPT !.state.finish = TRUE, !.ret = FALSE]
             ELSE m0
        ELSE m0

\* step(): what the call leaves of the worker, what it appended to its
\* outbox and to the output file, and the value it returns.
StepOf(st, data, inbox) ==
    IF st.finish
    THEN [state |-> st, data |-> data, sent |-> <<>>, out |-> <<>>,
          ret |-> FALSE]
    ELSE LET m0 == Stepping(st, data)
             inbox_msgs == SubSeq(inbox, st.file_pos + 1, Len(inbox))
             m1 == ReadNewMsgs(m0, inbox)
         IN  PhaseStep(HandleMsgs(m1, inbox_msgs))

\* Two workers A and B constructed over absent state files, each with a
\* sorted list (at most MaxDataLen values between them), the inbox of each
\* the outbox of the other (both files empty), and an empty shared output
\* file; step() not yet called.
MergeInit ==
    /\ \E dataA \in SortedLists, dataB \in SortedLists :
          /\ Len(dataA) + Len(dataB) <= MaxDataLen
          /\ merge = [data |-> [id \in WorkerIds |->
                                   IF id = "A" THEN dataA ELSE dataB],
                      state |-> [id \in WorkerIds |->
                                   InitialState(IF id = "A" THEN dataA
                                                ELSE dataB)],
                      inbox |-> [id \in WorkerIds |-> <<>>],
                      output |-> <<>>,
                      returned |-> [id \in WorkerIds |-> "not called"]]
    /\ fetch = NoFetch
    /\ self = InitFields(1)
    /\ log_file = <<>>
    /\ pc = "merge"
    /\ calls = <<>>
    /\ writes = <<>>
    /\ delivered = 0
    /\ restarts = 0
    /\ loads = 0
    /\ skips = <<>>
    /\ stream = <<>>

\* One call of step() on worker id.
Step(id) ==
    /\ pc = "merge"
    /\ LET r == StepOf(merge.state[id], merge.data[id], merge.inbox[id])
       IN  merge' = [merge EXCEPT
                       !.state[id] = r.state,
                       !.inbox[Partner(id)] = @ \o r.sent,
                       !.output = @ \o r.out,
                       !.returned[id] = IF r.ret THEN "True" ELSE "False"]
    /\ UNCHANGED <<loggerVars, fetch>>

StepA == Step("A")

StepB == Step("B")

MergeNext == StepA \/ StepB

SpecMerge == MergeInit /\ [][MergeNext]_vars

\* The same under every fair interleaving: each worker is stepped again and
\* again.
SpecMergeFair == SpecMerge /\ WF_vars(StepA) /\ WF_vars(StepB)

\* ------------------------------------------------------ reading the log back
\* The sequence and the status a reader finds on line i of the log.
SeqAt(i) == IntOf(Split3(log_file[i])[1])
StatusAt(i) == Split3(log_file[i])[4]

\* Line i follows line i - 1 out of strict physical order. The first line of
\* a log has no line before it and is in order.
OutOfOrderAt(i) == i > 1 /\ SeqAt(i) # SeqAt(i - 1) + 1

\* run() has ended, by a return or by an exception.
Terminated == pc \in {"done", "crashed"}

\* The writes of the history made since index n.
WritesSince(ws, n) == SubSeq(ws, n + 1, Len(ws))

\* How many records of the sequence ws satisfy being a contiguous write.
RECURSIVE ContiguousCount(_)
ContiguousCount(ws) ==
    IF ws = <<>> THEN 0
    ELSE (IF ws[1].path \in {"drain", "gap_drain"} THEN 1 ELSE 0)
         + ContiguousCount(Tail(ws))

\* ------------------------------------------------------------------- claims

\* C1. Dedup: the log never holds two lines with the same sequence, within a
\* run and across a restart that recovers from the same log file.
C1_Dedup ==
    \A i, j \in 1..Len(log_file) : i # j => SeqAt(i) # SeqAt(j)

\* C1 witness: a restarted logger, over a log that holds lines of the earlier
\* run, has discarded a duplicate and has written lines of its own.
C1_Witness ==
    /\ restarts = 1
    /\ self.stats.duplicates_discarded >= 1
    /\ self.stats.packets_written >= 1
    /\ Len(log_file) > self.stats.packets_written

\* C2. No silent drop: when run() has ended, every sequence admitted (every
\* member of the Seen Set) has exactly one line in the log.
C2_NoSilentDrop ==
    Terminated =>
        \A s \in self.seen_sequences :
            Cardinality({ i \in 1..Len(log_file) : SeqAt(i) = s }) = 1

\* C3 as stated, read in its favour: leaving aside the first line of the log
\* (no sequence was written before it) and the lines tagged RETRANSMIT, a
\* line is tagged LATE if and only if its sequence is not exactly one greater
\* than the sequence written before it.
C3_LateIffOutOfOrder ==
    \A i \in 2..Len(log_file) :
        StatusAt(i) # "RETRANSMIT" => (StatusAt(i) = "LATE" <=> OutOfOrderAt(i))

\* C3 as amended: a line whose sequence is in the Retransmitted Set is tagged
\* RETRANSMIT, in order or not; otherwise a line written by a contiguous
\* drain (of the flush or of a gap skip) is tagged LATE if it is out of order
\* and OK if not, and a line written by the bound enforcement or by the
\* finalize drain is tagged LATE, in order or not.
C3_StatusRule ==
    /\ Len(writes) = Len(log_file)
    /\ \A i \in 1..Len(log_file) :
          /\ writes[i].seq = SeqAt(i)
          /\ IF writes[i].retransmitted
             THEN StatusAt(i) = "RETRANSMIT"
             ELSE IF writes[i].path \in {"drain", "gap_drain"}
             THEN StatusAt(i) = (IF OutOfOrderAt(i) THEN "LATE" ELSE "OK")
             ELSE StatusAt(i) = "LATE"

\* C3 witness: the log holds a line tagged LATE that is in order after the
\* line before it, and a line a contiguous drain tagged LATE for being out of
\* order.
C3_Witness ==
    /\ \E i \in 2..Len(log_file) : StatusAt(i) = "LATE" /\ ~OutOfOrderAt(i)
    /\ \E i \in 2..Len(log_file) :
          /\ StatusAt(i) = "LATE" /\ OutOfOrderAt(i)
          /\ writes[i].path \in {"drain", "gap_drain"}

\* C4. One-shot retransmit: an EventLogger calls request_retransmit at most
\* once for a sequence, and every sequence it asked for is pending.
C4_OneShotRetransmit ==
    /\ \A i, j \in 1..Len(calls) : i # j => calls[i] # calls[j]
    /\ \A i \in 1..Len(calls) : calls[i] \in self.pending_retransmits
    /\ self.stats.retransmit_requests = Len(calls)

\* C4 witness: sequence 0 failed the checksum twice and was then found
\* missing by a flush, and was asked for once.
C4_Witness ==
    /\ calls = <<0>>
    /\ self.stats.corrupted_packets = 2
    /\ self.stats.buffer_flushes = 1
    /\ pc = "receive"

\* C5. No fatal error: run() never ends by an exception.
C5_NeverRaises == pc # "crashed"

\* C6. Finalize: it runs one standard flush, then writes what the flush left
\* in the buffer in ascending sequence order, each line tagged RETRANSMIT if
\* its sequence is in the Retransmitted Set and LATE if not; it leaves the
\* buffer empty, final_buffer_size 0 and the cursor where the flush left it.
C6_FinalizeEmptiesBuffer ==
    [][(pc = "receive" /\ pc' = "done") =>
         LET f == FlushBuffer(World)
             n == Len(f.log)
             m == Len(log_file')
         IN  /\ SubSeq(log_file', 1, n) = f.log
             /\ m - n = Len(f.self.buffer)
             /\ { SeqAt(i)' : i \in (n + 1)..m }
                  = { f.self.buffer[k].sequence : k \in 1..Len(f.self.buffer) }
             /\ \A i, j \in (n + 1)..m : i < j => SeqAt(i)' <= SeqAt(j)'
             /\ \A i \in (n + 1)..m :
                   StatusAt(i)' = IF SeqAt(i)' \in f.self.retransmitted_seqs
                                  THEN "RETRANSMIT" ELSE "LATE"
             /\ self'.buffer = <<>>
             /\ self'.stats.final_buffer_size = 0
             /\ self'.expected_sequence = f.self.expected_sequence]_vars

\* C6 witness: run() has returned and the last line of the log was written
\* by the finalize drain of this run.
C6_Witness ==
    /\ pc = "done"
    /\ writes # <<>>
    /\ writes[Len(writes)].path = "finalize"
    /\ writes[Len(writes)].run = restarts

\* C7. Recovery idempotence: a second call of _load_existing_log on the same
\* log leaves expected_sequence, last_written_seq and the Seen Set as the
\* first call left them.
C7_RecoveryIdempotent ==
    [][loads >= 1 =>
         /\ self'.expected_sequence = self.expected_sequence
         /\ self'.last_written_seq = self.last_written_seq
         /\ self'.seen_sequences = self.seen_sequences]_vars

\* C7 witness: recovery has run twice on a log with a malformed line and a
\* well-formed one.
C7_Witness ==
    /\ loads = 2
    /\ self.seen_sequences # {}
    /\ \E i \in 1..Len(log_file) : Len(log_file[i]) # 4

\* The lines of the file between its first and its last line that is not
\* blank (the content after strip()).
Stripped(file) ==
    IF ContentEmpty(file) THEN <<>>
    ELSE LET nb == { i \in 1..Len(file) : ~IsBlank(file[i]) }
             lo == CHOOSE i \in nb : \A j \in nb : i <= j
             hi == CHOOSE i \in nb : \A j \in nb : i >= j
         IN  SubSeq(file, lo, hi)

\* A line of exactly four fields whose first is an integer.
WellFormed(line) == Len(line) = 4 /\ IsInt(line[1])

\* A line recovery takes: at least four fields, the first an integer.
Taken(line) == Len(line) >= 4 /\ IsInt(line[1])

\* C8 as stated: over a non-empty log the Seen Set is exactly the sequences
\* of the well-formed lines, last_written_seq is the sequence of the last
\* line of the file and expected_sequence is one more; over an empty log the
\* Seen Set is empty, last_written_seq is -1 and expected_sequence is 0.
C8_RecoveryAsStated ==
    loads >= 1 =>
        LET content == Stripped(log_file)
        IN  IF content = <<>>
            THEN /\ self.seen_sequences = {}
                 /\ self.last_written_seq = -1
                 /\ self.expected_sequence = 0
            ELSE /\ self.seen_sequences =
                      { IntOf(content[i][1]) :
                          i \in { k \in 1..Len(content) : WellFormed(content[k]) } }
                 /\ WellFormed(content[Len(content)])
                 /\ self.last_written_seq = IntOf(content[Len(content)][1])
                 /\ self.expected_sequence = self.last_written_seq + 1

\* C8 as amended: the Seen Set is exactly the sequences of the lines that
\* have at least four comma-separated fields and an integer first field;
\* last_written_seq is the sequence of the last such line of the file, or -1
\* when the file has none; expected_sequence = last_written_seq + 1.
C8_Recovery ==
    loads >= 1 =>
        LET taken == { i \in 1..Len(log_file) : Taken(log_file[i]) }
        IN  /\ self.seen_sequences = { IntOf(log_file[i][1]) : i \in taken }
            /\ IF taken = {}
               THEN self.last_written_seq = -1
               ELSE \E i \in taken :
                       /\ \A j \in taken : j <= i
                       /\ self.last_written_seq = IntOf(log_file[i][1])
            /\ self.expected_sequence = self.last_written_seq + 1

\* C8 witness: recovery over a log whose last line is malformed, whose last
\* taken line does not hold the largest sequence, and which holds a line of
\* five fields.
C8_Witness ==
    /\ loads = 1
    /\ Len(log_file) = 3
    /\ ~Taken(log_file[3])
    /\ Len(log_file[2]) = 5
    /\ self.last_written_seq = 2
    /\ 3 \in self.seen_sequences

\* C9. Restart preserves the cursor: the expected_sequence a new EventLogger
\* recovers is not smaller than the one the run that returned had reached.
C9_RestartKeepsCursor ==
    [][(pc = "done" /\ restarts' = restarts + 1) =>
         self'.expected_sequence >= self.expected_sequence]_vars

\* C10. Cursor monotonicity: within one EventLogger, a step never lowers
\* expected_sequence, and raises it by exactly one per line written by a
\* contiguous drain and one per gap skip.
C10_CursorMonotonic ==
    [][restarts' = restarts =>
         /\ self'.expected_sequence >= self.expected_sequence
         /\ self'.expected_sequence - self.expected_sequence
              = ContiguousCount(WritesSince(writes', Len(writes)))
                + (self'.stats.gaps - self.stats.gaps)]_vars

\* C10 witness: an EventLogger has skipped a gap, has written a line in the
\* drain that follows a skip and a line in the first drain of a flush.
C10_Witness ==
    /\ self.stats.gaps >= 1
    /\ \E i \in 1..Len(writes) :
          writes[i].path = "gap_drain" /\ writes[i].run = restarts
    /\ \E i \in 1..Len(writes) :
          writes[i].path = "drain" /\ writes[i].run = restarts

\* The step is a call of _handle_packet that appended a packet to the buffer.
Admission ==
    /\ pc = "receive" /\ pc' = "should_flush"
    /\ Len(self'.buffer) = Len(self.buffer) + 1

\* No two packets of the buffer buf share a sequence number.
NoSharedSequence(buf) ==
    \A i, j \in 1..Len(buf) : i # j => buf[i].sequence # buf[j].sequence

\* C11 as stated: a packet appended to the buffer has a sequence that is not
\* below expected_sequence, and no two buffered packets share a sequence.
C11_AdmittedAtOrAboveCursor ==
    [][/\ Admission =>
            self'.buffer[Len(self'.buffer)].sequence >= self.expected_sequence
       /\ NoSharedSequence(self'.buffer)]_vars

\* C11 as amended: a packet appended to the buffer is intact and has a
\* sequence that was not in the Seen Set (it may be below expected_sequence),
\* and no two buffered packets share a sequence.
C11_BufferAdmission ==
    [][/\ Admission =>
            /\ self'.buffer[Len(self'.buffer)].valid
            /\ self'.buffer[Len(self'.buffer)].sequence \notin self.seen_sequences
            /\ SubSeq(self'.buffer, 1, Len(self.buffer)) = self.buffer
       /\ NoSharedSequence(self'.buffer)]_vars

\* C11 witness: the packet just appended has a sequence below the cursor,
\* and the buffer holds another packet.
C11_Witness ==
    /\ pc = "should_flush"
    /\ Len(self.buffer) >= 2
    /\ self.buffer[Len(self.buffer)].sequence < self.expected_sequence

\* C12. Memory bound: between two receive-loop iterations the buffer holds at
\* most buffer_size packets, and it never holds more than buffer_size + 1.
C12_MemoryBound ==
    /\ Len(self.buffer) <= self.buffer_size + 1
    /\ pc = "receive" => Len(self.buffer) <= self.buffer_size

\* C12 witness: an iteration has ended with a full buffer after the bound
\* enforcement evicted a packet.
C12_Witness ==
    /\ pc = "receive"
    /\ Len(self.buffer) = self.buffer_size
    /\ writes # <<>>
    /\ writes[Len(writes)].path = "evict"
    /\ writes[Len(writes)].run = restarts

\* How many times the value x occurs in the sequence q.
RECURSIVE Count(_, _)
Count(q, x) ==
    IF q = <<>> THEN 0
    ELSE (IF q[1] = x THEN 1 ELSE 0) + Count(Tail(q), x)

\* The sequences and the statuses of the lines of the log, in order.
LogSeqs == [i \in 1..Len(log_file) |-> SeqAt(i)]
LogStatuses == [i \in 1..Len(log_file) |-> StatusAt(i)]

\* C13. Scenario A: with buffer_size 4 over an empty log the run gets through
\* sequences 0, 1, 2, 3 without an error, and once the fourth is handled and
\* the flush it triggers is done, the log holds 0, 1, 2, 3, each tagged OK,
\* one flush was made, expected_sequence is 4, gaps and inversions are 0.
C13_ScenarioA ==
    (stream = ScenarioA /\ self.buffer_size = 4) =>
        /\ pc # "crashed"
        /\ (delivered = 4 /\ pc = "receive") =>
              /\ LogSeqs = <<0, 1, 2, 3>>
              /\ LogStatuses = <<"OK", "OK", "OK", "OK">>
              /\ self.stats.buffer_flushes = 1
              /\ self.expected_sequence = 4
              /\ self.stats.gaps = 0
              /\ self.stats.inversions = 0

\* C14. Scenario C: when sequence s fails the checksum twice and then arrives
\* intact, request_retransmit(s) is called once, by the first failure, and
\* once run() has ended the log holds one line for s, tagged RETRANSMIT.
C14_ScenarioC ==
    \A s \in 0..MaxSeq :
        stream = ScenarioC(s) =>
            /\ delivered >= 1 => Count(calls, s) = 1
            /\ delivered = 1 => calls = <<s>>
            /\ Terminated =>
                  \E i \in 1..Len(log_file) :
                      /\ SeqAt(i) = s
                      /\ StatusAt(i) = "RETRANSMIT"
                      /\ \A j \in 1..Len(log_file) : SeqAt(j) = s => j = i

\* C15. Scenario D: with buffer_size 4 over an empty log, sequence 0, then
\* sequence 2, then six deliveries without sequence 1: the run ends without
\* an error, a flush is made before end-of-stream, request_retransmit(1) is
\* called exactly once, and after finalize the log holds sequence 0 and
\* sequence 2, the latter tagged LATE, no line for sequence 1, and gaps is 1.
C15_ScenarioD ==
    (stream \in ScenarioD /\ self.buffer_size = 4) =>
        /\ pc # "crashed"
        /\ (delivered = Len(stream) /\ pc = "receive") =>
              self.stats.buffer_flushes >= 1
        /\ pc = "done" =>
              /\ Count(calls, 1) = 1
              /\ \E i \in 1..Len(log_file) : SeqAt(i) = 0
              /\ \E i \in 1..Len(log_file) :
                    SeqAt(i) = 2 /\ StatusAt(i) = "LATE"
              /\ \A i \in 1..Len(log_file) : SeqAt(i) # 1
              /\ self.stats.gaps = 1

\* The status an attempt ended with, when it ended with one.
StatusOf(o) ==
    IF o.kind = "response" THEN o.status
    ELSE IF o.has_code THEN o.code ELSE 0

HasStatus(o) == o.kind \in {"response", "HTTPError"}

Is2xx(o) == o.kind = "response" /\ StatusOf(o) \in 200..299

Is4xx(o) == HasStatus(o) /\ StatusOf(o) \in 400..499

Is5xx(o) == HasStatus(o) /\ StatusOf(o) \in 500..599

\* The retryable failures the claim lists: 5xx, timeout, connection error.
ListedFailure(o) ==
    Is5xx(o) \/ o.kind \in {"timeout", "URLError", "Exception"}

\* Every outcome that is neither a 2xx nor a 4xx.
NeitherSuccessNorClientError(o) == ~Is2xx(o) /\ ~Is4xx(o)

\* The callbacks of one name, in call order.
CallbacksNamed(name) == SelectSeq(fetch.handler, LAMBDA c : c.name = name)

\* The retry protocol of fetch, over the attempts made and the callbacks
\* recorded so far, with Failure the outcomes that count as retryable
\* failures for on_max_retries.
RetryProtocol(Failure(_)) ==
    LET n == Len(fetch.attempts)
        h == fetch.handler
        last == fetch.attempts[n]
    IN  /\ n <= MAX_RETRIES + 1
        \* every attempt before the last was neither a 2xx nor a 4xx
        /\ \A i \in 1..(n - 1) : NeitherSuccessNorClientError(fetch.attempts[i])
        \* a 2xx or a 4xx ends the call at once
        /\ fetch.returned = "running" =>
              \A i \in 1..n : NeitherSuccessNorClientError(fetch.attempts[i])
        /\ fetch.returned = "True" <=> (n > 0 /\ Is2xx(last))
        /\ (n > 0 /\ Is4xx(last)) =>
              /\ fetch.returned = "False"
              /\ h[Len(h)] = [name |-> "on_client_error", try_num |-> n - 1]
        \* on_retry once after each attempt that is followed by another
        /\ n = fetch.try_num + (IF fetch.returned = "running" THEN 0 ELSE 1)
        /\ CallbacksNamed("on_retry") =
              [i \in 1..fetch.try_num |->
                 [name |-> "on_retry", try_num |-> i - 1]]
        \* on_max_retries: at most once, last, and exactly when all
        \* MAX_RETRIES + 1 attempts failed
        /\ Len(CallbacksNamed("on_max_retries")) <= 1
        /\ Len(CallbacksNamed("on_max_retries")) = 1 =>
              /\ fetch.returned = "False"
              /\ h[Len(h)].name = "on_max_retries"
        /\ fetch.returned # "running" =>
              (Len(CallbacksNamed("on_max_retries")) = 1
                 <=> /\ n = MAX_RETRIES + 1
                     /\ \A i \in 1..n : Failure(fetch.attempts[i]))

\* C16, as stated: fetch stops at the first 2xx (True) or the first 4xx
\* (on_client_error, False, no retry); otherwise it retries, with on_retry
\* before each retry, makes at most MAX_RETRIES + 1 attempts, and calls
\* on_max_retries exactly once, last, if and only if all MAX_RETRIES + 1
\* attempts ended in a 5xx, a timeout or a connection error.
C16_RetryProtocolAsStated == RetryProtocol(ListedFailure)

\* C16, amended: the same protocol, on_max_retries being called exactly once,
\* last, if and only if all MAX_RETRIES + 1 attempts ended in anything other
\* than a 2xx or a 4xx: a 5xx, a timeout, a connection error, or a status
\* outside 200..599 (and, for an HTTPError, a missing code).
C16_RetryProtocol == RetryProtocol(NeitherSuccessNorClientError)

\* C16: fetch has returned False after MAX_RETRIES + 1 attempts and
\* on_max_retries, one of the attempts having ended with a status that is no
\* 2xx, 4xx or 5xx.
C16_Witness ==
    /\ fetch.returned = "False"
    /\ Len(fetch.attempts) = MAX_RETRIES + 1
    /\ Len(CallbacksNamed("on_max_retries")) = 1
    /\ Len(CallbacksNamed("on_retry")) = MAX_RETRIES
    /\ \E i \in 1..Len(fetch.attempts) : ~ListedFailure(fetch.attempts[i])

\* C17. Flush scheduling: the decision taken after an ingested packet is to
\* flush if and only if the buffer has reached buffer_size or the gap-wait
\* counter has reached gap_wait_limit = max(6, buffer_size div 2); past the
\* size test the counter is zero when a buffered packet has the sequence
\* expected_sequence and one more than before otherwise.
C17_FlushScheduling ==
    [][pc = "should_flush" =>
         LET full == Len(self.buffer) >= self.buffer_size
             has_expected == HasSeq(self.buffer, self.expected_sequence)
             counter == IF full THEN self.gap_wait_cycles
                        ELSE IF has_expected THEN 0
                        ELSE self.gap_wait_cycles + 1
         IN  /\ self.gap_wait_limit = Max(6, self.buffer_size \div 2)
             /\ self'.gap_wait_cycles = counter
             /\ pc' = IF full \/ counter >= self.gap_wait_limit
                      THEN "flush" ELSE "receive"]_vars

\* The sequences skipped as a gap by the current EventLogger object before
\* its write number n.
SkippedBefore(n) ==
    { skips[i].skipped : i \in { j \in 1..Len(skips) :
                                   /\ skips[j].run = restarts
                                   /\ skips[j].written < n } }

\* Sequence s had a retransmit requested and was skipped as a gap, and has
\* not arrived intact since.
SkippedAwaited(s) ==
    /\ s \in self.retransmitted_seqs
    /\ s \in SkippedBefore(Len(writes) + 1)
    /\ s \notin self.seen_sequences

\* The writes of sequences that had a retransmit requested and had been
\* skipped as a gap when they were written.
LateRetransmitWrites ==
    { i \in 1..Len(writes) : /\ writes[i].run = restarts
                             /\ writes[i].retransmitted
                             /\ writes[i].seq \in SkippedBefore(i) }

\* C18, as stated: a sequence that had a retransmit requested, was skipped as
\* a gap and then arrived intact is written out of order (behind the cursor)
\* with status LATE.
C18_WrittenLate ==
    \A i \in LateRetransmitWrites :
        /\ writes[i].status = "LATE"
        /\ writes[i].seq < writes[i].expected

\* C18, amended: a sequence that had a retransmit requested, was skipped as a
\* gap and then arrives intact is not counted as a duplicate and is admitted
\* to the buffer and the Seen Set; every write of such a sequence is behind
\* the cursor and carries status RETRANSMIT, never LATE; and finalize writes
\* every such packet still buffered.
C18_LateRetransmit ==
    /\ [][(/\ pc = "receive"
           /\ delivered' = delivered + 1
           /\ stream[delivered + 1].valid
           /\ SkippedAwaited(stream[delivered + 1].sequence))
          => LET s == stream[delivered + 1].sequence
             IN  /\ self'.stats.duplicates_discarded
                      = self.stats.duplicates_discarded
                 /\ self'.buffer = Append(self.buffer, stream[delivered + 1])
                 /\ s \in self'.seen_sequences]_vars
    /\ [](\A i \in LateRetransmitWrites :
             /\ writes[i].status = "RETRANSMIT"
             /\ writes[i].seq < writes[i].expected)
    /\ [][pc' = "done"
          => \A k \in 1..Len(self.buffer) :
                self.buffer[k].sequence \in SkippedBefore(Len(writes) + 1)
                => \E i \in (Len(writes) + 1)..Len(writes') :
                      writes'[i].seq = self.buffer[k].sequence]_vars

\* C18: a sequence that had a retransmit requested and was skipped as a gap
\* has arrived intact afterwards and has been written.
C18_Witness ==
    \E i \in LateRetransmitWrites :
        /\ writes[i].seq < writes[i].expected
        /\ writes[i].path \in {"evict", "finalize"}

\* C19. Corrupt packets change nothing but retransmit bookkeeping: receiving
\* a packet that fails the checksum leaves the buffer, the Seen Set,
\* expected_sequence, last_written_seq and the log as they were (and every
\* other field but the counters named here); corrupted_packets grows by one
\* (packets_received too, counted by run); and only if the sequence is not in
\* Pending Retransmits, request_retransmit is called once with it, it joins
\* Pending Retransmits and the Retransmitted Set and retransmit_requests
\* grows by one.
C19_CorruptPacketFrame ==
    [][(/\ pc = "receive"
        /\ delivered' = delivered + 1
        /\ ~stream[delivered + 1].valid)
       => LET s == stream[delivered + 1].sequence
              counted == [self EXCEPT !.stats.packets_received = @ + 1,
                                      !.stats.corrupted_packets = @ + 1]
          IN  /\ log_file' = log_file
              /\ writes' = writes
              /\ self'.buffer = self.buffer
              /\ self'.seen_sequences = self.seen_sequences
              /\ self'.expected_sequence = self.expected_sequence
              /\ self'.last_written_seq = self.last_written_seq
              /\ IF s \in self.pending_retransmits
                 THEN /\ self' = counted
                      /\ calls' = calls
                 ELSE /\ self' = [counted EXCEPT
                                    !.pending_retransmits = @ \cup {s},
                                    !.retransmitted_seqs = @ \cup {s},
                                    !.stats.retransmit_requests = @ + 1]
                      /\ calls' = Append(calls, s)]_vars

\* C19: the same sequence has just failed the checksum a second time in a
\* row; one retransmit was requested for it, both packets were counted.
C19_Witness ==
    /\ pc = "should_flush"
    /\ delivered >= 2
    /\ ~stream[delivered].valid
    /\ ~stream[delivered - 1].valid
    /\ stream[delivered].sequence = stream[delivered - 1].sequence
    /\ Count(calls, stream[delivered].sequence) = 1
    /\ self.stats.corrupted_packets >= 2
    /\ self.stats.retransmit_requests = Len(calls)

\* C20. Gap-skip bound: one call of _flush_buffer skips at most
\* gap_skip_limit = max(1, buffer_size div 10) sequences; a skip is made
\* only with a non-empty buffer whose every sequence exceeds
\* expected_sequence; each skip adds exactly one to the gaps counter; and
\* each skip is followed at once by a contiguous drain from the new cursor:
\* the packet of the next sequence, when buffered, is the next write, every
\* write of that drain is the cursor's own sequence, and the flush leaves no
\* packet of sequence expected_sequence in the buffer.
C20_GapSkipBound ==
    /\ [](self.gap_skip_limit = Max(1, self.buffer_size \div 10))
    /\ [](\A k \in 1..Len(skips) :
             /\ skips[k].skip_count < self.gap_skip_limit
             /\ skips[k].buffer # <<>>
             /\ \A j \in 1..Len(skips[k].buffer) :
                   skips[k].buffer[j].sequence > skips[k].skipped
             /\ HasSeq(skips[k].buffer, skips[k].skipped + 1)
                => /\ Len(writes) > skips[k].written
                   /\ writes[skips[k].written + 1].seq = skips[k].skipped + 1
                   /\ writes[skips[k].written + 1].path = "gap_drain")
    /\ [](\A i \in 1..Len(writes) :
             writes[i].path = "gap_drain"
             => /\ writes[i].seq = writes[i].expected
                /\ \E k \in 1..Len(skips) :
                      /\ skips[k].written < i
                      /\ skips[k].skipped < writes[i].seq)
    /\ [][/\ Len(skips') - Len(skips) <= self.gap_skip_limit
          /\ self'.stats.gaps - self.stats.gaps = Len(skips') - Len(skips)
          /\ Len(skips') > Len(skips)
             => ~HasSeq(self'.buffer, self'.expected_sequence)]_vars

\* C20: a flush stopped skipping at the limit with the cursor still below
\* the smallest buffered sequence, and a skip of another flush was followed
\* by the write of the next sequence.
C20_Witness ==
    /\ \E k \in 1..Len(skips) :
          /\ skips[k].skip_count = self.gap_skip_limit - 1
          /\ skips[k].buffer[1].sequence > skips[k].skipped + 1
    /\ \E k \in 1..Len(skips) :
          /\ Len(writes) > skips[k].written
          /\ writes[skips[k].written + 1].path = "gap_drain"

\* The writes a step adds that bound enforcement made.
NewEvictions ==
    { i \in (Len(writes) + 1)..Len(writes') : writes'[i].path = "evict" }

\* C21. Bound enforcement: a packet evicted at the end of a flush is the one
\* with the smallest sequence in the buffer (no packet left in the buffer
\* and no packet evicted after it has a smaller sequence); it is written
\* with status RETRANSMIT if its sequence is in the Retransmitted Set and
\* LATE otherwise, never OK; and eviction leaves expected_sequence as it was.
C21_BoundEnforcement ==
    [][\A i \in NewEvictions :
          /\ \A k \in 1..Len(self'.buffer) :
                self'.buffer[k].sequence >= writes'[i].seq
          /\ \A j \in NewEvictions : j > i => writes'[j].seq >= writes'[i].seq
          /\ writes'[i].status =
                IF writes'[i].retransmitted THEN "RETRANSMIT" ELSE "LATE"
          /\ writes'[i].expected = self'.expected_sequence]_vars

\* C21: a flush has just evicted a packet, written LATE, and left a packet
\* of a larger sequence in the buffer.
C21_Witness ==
    /\ writes # <<>>
    /\ writes[Len(writes)].path = "evict"
    /\ writes[Len(writes)].status = "LATE"
    /\ self.buffer # <<>>
    /\ self.buffer[1].sequence > writes[Len(writes)].seq
    /\ pc = "receive"

\* The sequence numbers below the largest logged sequence that have no line
\* in the log.
MissingSequences ==
    LET logged == { SeqAt(i) : i \in 1..Len(log_file) }
    IN  { n \in 0..MaxSeq : /\ n \notin logged
                            /\ \E m \in logged : n < m }

\* C22. Gaps statistic: when run has returned on a log that was empty at
\* startup, stats.gaps is the number of sequence numbers below the largest
\* logged sequence that have no line in the log.
C22_GapsCountMissing ==
    pc = "done" => self.stats.gaps = Cardinality(MissingSequences)

\* C23. Contiguous-drain postcondition: when _flush_buffer, called with a
\* non-empty buffer, or _finalize returns, no packet left in the buffer has
\* the sequence expected_sequence; and every packet a contiguous drain wrote
\* had the sequence expected_sequence when it was written.
C23_DrainPostcondition ==
    /\ [][((pc = "flush" /\ self.buffer # <<>>) \/ pc' = "done")
          => ~HasSeq(self'.buffer, self'.expected_sequence)]_vars
    /\ [](\A i \in 1..Len(writes) :
             writes[i].path \in {"drain", "gap_drain"}
             => writes[i].seq = writes[i].expected)

\* C23: a flush has returned after its first drain wrote two packets in a
\* row, leaving a packet buffered.
C23_Witness ==
    /\ pc = "receive"
    /\ self.buffer # <<>>
    /\ \E i \in 2..Len(writes) :
          /\ writes[i].path = "drain"
          /\ writes[i - 1].path = "drain"
          /\ writes[i].run = restarts
          /\ writes[i].seq = writes[i - 1].seq + 1
          /\ writes[i].expected = writes[i - 1].expected + 1

\* The sequences the log held when the current EventLogger was constructed:
\* the lines before those it has written itself.
SeenAtStartup ==
    { SeqAt(i) : i \in 1..(Len(log_file) - self.stats.packets_written) }

\* The sequences the current EventLogger has written.
WrittenThisRun ==
    { writes[i].seq : i \in { j \in 1..Len(writes) : writes[j].run = restarts } }

\* C24. Packet conservation: at every receive-loop boundary of a run (and
\* when the run has ended), packets_received = corrupted_packets +
\* duplicates_discarded + packets_written + the buffer's size, and the
\* sequences added to the Seen Set during the run are the sequences written
\* during the run together with the sequences buffered.
C24_PacketConservation ==
    pc \in {"receive", "done", "crashed"} =>
        /\ self.stats.packets_received
             = self.stats.corrupted_packets + self.stats.duplicates_discarded
               + self.stats.packets_written + Len(self.buffer)
        /\ self.seen_sequences \ SeenAtStartup
             = WrittenThisRun
               \cup { self.buffer[k].sequence : k \in 1..Len(self.buffer) }

\* C24: at a loop boundary of a run that has counted a corrupt packet, a
\* duplicate and a written packet, with a packet in the buffer.
C24_Witness ==
    /\ pc = "receive"
    /\ self.stats.corrupted_packets >= 1
    /\ self.stats.duplicates_discarded >= 1
    /\ self.stats.packets_written >= 1
    /\ self.buffer # <<>>

\* Both workers have reached the finished state.
BothFinished == \A id \in WorkerIds : merge.state[id].finish

\* C25. Merge correctness: at every point the output file is a
\* non-decreasing sequence, and once both workers have finished it holds
\* every value of both lists exactly as often as the two lists hold it.
C25_MergeCorrect ==
    /\ \A i \in 1..(Len(merge.output) - 1) :
          merge.output[i] <= merge.output[i + 1]
    /\ BothFinished =>
          \A v \in 0..MaxValue :
             Count(merge.output, v)
               = Count(merge.data["A"], v) + Count(merge.data["B"], v)

\* Worker id has got an END message from its partner: one lies in its inbox
\* among the lines it has read.
ReceivedEnd(id) ==
    \E i \in 1..merge.state[id].file_pos : merge.inbox[id][i].msg_type = "END"

\* C26. Merge termination: under every fair interleaving of step() calls
\* both workers eventually reach the finished state, in which step() returns
\* False; step() returns False only in the finished state; and a finished
\* worker is past the end of its data, every value of which is in the
\* output, and has received END from its partner.
C26_MergeTerminates ==
    /\ <>[](\A id \in WorkerIds : /\ merge.state[id].finish
                                  /\ merge.returned[id] = "False")
    /\ [](\A id \in WorkerIds :
             /\ merge.returned[id] = "False" => merge.state[id].finish
             /\ merge.state[id].finish =>
                   /\ merge.state[id].data_index >= Len(merge.data[id])
                   /\ \A v \in 0..MaxValue :
                         Count(merge.output, v) >= Count(merge.data[id], v)
                   /\ merge.state[id].b_end
                   /\ ReceivedEnd(id))

\* C26: both workers, each with values to merge, one value held by both, have
\* finished and step() has returned False to both.
C26_Witness ==
    /\ \A id \in WorkerIds : /\ merge.state[id].finish
                             /\ merge.returned[id] = "False"
                             /\ merge.data[id] # <<>>
    /\ \E v \in 0..MaxValue :
          Count(merge.data["A"], v) >= 1 /\ Count(merge.data["B"], v) >= 1
    /\ Len(merge.output) = Len(merge.data["A"]) + Len(merge.data["B"])

====
